---- MODULE Spec2Model ----
(***************************************************************************)
(* PhatsAPI: the route-registration facade over Hono, hono-openapi and Zod. *)
(* The model follows the current phatsapi.ts (mergeSchemas, handleZodError, *)
(* handleRequest, createRouteConfig, PhatsAPI) together with the behaviour  *)
(* of the collaborators that the facade's calls rely on: Hono's router,     *)
(* handler composition and default error handler, hono's validator          *)
(* middleware as wrapped by hono-openapi/zod, Zod's object parsing, and     *)
(* hono-openapi's openAPISpecs generator.                                   *)
(***************************************************************************)
EXTENDS Naturals, Sequences, FiniteSets, TLC

(***************************************************************************)
(* The field names of the model's records.  Every record below lists its    *)
(* fields in this one order, which is also the order in which TLC keeps     *)
(* them, so that a record value is never reordered after it is built.       *)
(***************************************************************************)
FieldNames ==
    [isObj : {}, obj : {}, kind : {}, shape : {}, code : {}, success : {},
     param : {}, text : {}, field : {}, errors : {}, error : {},
     single : {}, method : {}, path : {}, query : {}, routeConfig : {},
     paramSchema : {}, querySchema : {}, jsonSchema : {},
     compoundRequest : {}, ref : {}, requestSchema : {},
     responseSchema : {}, title : {}, version : {}, description : {},
     schema : {}, in : {}, responses : {}, compound : {}, route : {}, h : {},
     pc : {}, req : {}, chain : {}, pos : {}, json : {}, input : {},
     calls : {}, outcome : {}, response : {}, log : {}, openapi : {},
     info : {}, paths : {}, cached : {}, doc : {}, threw : {}, data : {},
     issues : {}, name : {}, value : {}, status : {}, type : {},
     optional : {}, message : {}, body : {}, properties : {},
     required : {}, items : {}, jsonContentType : {}, parameters : {},
     requestBody : {}, receiver : {}]

VARIABLES
    info,     \* documentation.info handed to the constructor
    routes,   \* hono.routes: one entry per registration, in registration order
    built,    \* the router's matcher has been built (first request was routed)
    specs,    \* the document cached by the openAPISpecs handler
    ctx       \* per request slot: the Hono context of the request in flight

vars == <<info, routes, built, specs, ctx>>

(***************************************************************************)
(* Bounds of the model.                                                     *)
(***************************************************************************)
MaxRoutes == 1        \* user routes registered where requests are served
MaxDocRoutes == 2     \* user routes registered where the document is fetched
MaxInFlight == 2      \* request slots
MaxMiddleware == 1    \* middleware added with use

ReqIds == 1..MaxInFlight

(***************************************************************************)
(* JSON values.  Field names and scalar values are drawn from small sets;   *)
(* "7" stands for the JSON number 7, the others are JSON strings.           *)
(***************************************************************************)
Keys == {"id", "name"}
KeyOrder == <<"id", "name">>
ParamVals == {"p"}          \* values of path segments
QueryVals == {"q"}          \* values of query parameters
BodyVals == {"b", "7"}      \* values of JSON body members
ResultVals == {"r"}         \* values of the members a handler returns
NumVals == {"7"}

TypeOf(v) == IF v \in NumVals THEN "number" ELSE "string"

\* Plain objects: functions from a set of keys to values.
EmptyObj == <<>>
ObjectsOver(vals) == UNION {[S -> vals] : S \in SUBSET Keys}

\* { ...a, ...b }
Spread(a, b) ==
    [k \in (DOMAIN a) \cup (DOMAIN b) |-> IF k \in DOMAIN b THEN b[k] ELSE a[k]]

\* A parsed JSON value: an object, or something that is not an object
\* (a number, a string, null), which spreads to nothing.
JObj(o) == [isObj |-> TRUE, obj |-> o]
JScalar == [isObj |-> FALSE, obj |-> EmptyObj]

(***************************************************************************)
(* Zod.  A field is a z.string() or a z.number(), possibly .optional().     *)
(* A schema is a z.object(shape), a ZodEffects over an object (the result   *)
(* of .refine or .transform, which is no ZodObject), or undefined.          *)
(***************************************************************************)
Field(t, opt) == [type |-> t, optional |-> opt]

ZObject(shape) == [kind |-> "object", shape |-> shape]
ZEffects(shape) == [kind |-> "effects", shape |-> shape]
Undefined == [kind |-> "undefined", shape |-> EmptyObj]

\* The issue Zod raises for one declared field of an object, if any.
FieldIssues(shape, o, k) ==
    IF k \notin DOMAIN o
    THEN IF shape[k].optional
         THEN <<>>
         ELSE <<[code |-> "invalid_type", path |-> <<k>>, message |-> "Required"]>>
    ELSE IF TypeOf(o[k]) # shape[k].type
         THEN <<[code |-> "invalid_type", path |-> <<k>>,
                 message |-> "Expected " \o shape[k].type \o ", received " \o TypeOf(o[k])]>>
         ELSE <<>>

RECURSIVE ShapeIssues(_, _, _)
ShapeIssues(shape, o, i) ==
    IF i > Len(KeyOrder)
    THEN <<>>
    ELSE (IF KeyOrder[i] \in DOMAIN shape THEN FieldIssues(shape, o, KeyOrder[i]) ELSE <<>>)
         \o ShapeIssues(shape, o, i + 1)

\* schema.safeParseAsync(value): unknown keys are stripped, every declared
\* field is checked; a value that is no object fails at the root path.
SafeParse(schema, jv) ==
    IF ~jv.isObj
    THEN [success |-> FALSE, data |-> EmptyObj,
          issues |-> <<[code |-> "invalid_type", path |-> <<>>,
                        message |-> "Expected object, received number"]>>]
    ELSE LET iss == ShapeIssues(schema.shape, jv.obj, 1)
         IN  [success |-> iss = <<>>,
              data |-> IF iss = <<>>
                       THEN [k \in (DOMAIN schema.shape) \cap (DOMAIN jv.obj) |-> jv.obj[k]]
                       ELSE EmptyObj,
              issues |-> iss]

(***************************************************************************)
(* phatsapi.ts: mergeSchemas, handleZodError, createRouteConfig.            *)
(***************************************************************************)
\* A CompoundRequest: the param, query and json schemas, each possibly undefined.
Compound(p, q, j) == [param |-> p, query |-> q, json |-> j]

\* request.X instanceof z.ZodObject ? request.X.shape : {}
ShapeOrEmpty(schema) == IF schema.kind = "object" THEN schema.shape ELSE EmptyObj

\* A variant that takes the fields of a part of any kind;
\* OnlyObjectPartsContributeFields must fail against it.
mergeSchemas_AnyKind(request) ==
    ZObject(Spread(Spread(request.param.shape, request.query.shape),
                   request.json.shape))

mergeSchemas(request) ==
    LET paramShape == ShapeOrEmpty(request.param)
        queryShape == ShapeOrEmpty(request.query)
        bodyShape == ShapeOrEmpty(request.json)
        mergedShape == Spread(Spread(paramShape, queryShape), bodyShape)
    IN  ZObject(mergedShape)

\* path.join(".")
RECURSIVE JoinDot(_)
JoinDot(path) ==
    IF path = <<>> THEN ""
    ELSE IF Len(path) = 1 THEN path[1]
    ELSE path[1] \o "." \o JoinDot(Tail(path))

\* c.json(body, status) and c.text(text, status)
JsonResponse(body, status) == [status |-> status, type |-> "json", body |-> body]
TextResponse(text, status) == [status |-> status, type |-> "text", body |-> [text |-> text]]

\* A variant that answers a failed merged parse with status 422;
\* StatusesAreTheOutcomeSet must fail against it.
handleZodError_Unprocessable(issues) ==
    JsonResponse([errors |-> <<>>], 422)

handleZodError(issues) ==
    LET formattedErrors ==
            [i \in 1..Len(issues) |->
                [field |-> JoinDot(issues[i].path), message |-> issues[i].message]]
    IN  JsonResponse([errors |-> formattedErrors], 400)

\* The JSON Schema that resolver(schema) renders: a $ref for a schema that
\* carries a ref name, the inline object schema otherwise.
InlineSchema(shape) ==
    IF DOMAIN shape = {}
    THEN [type |-> "object"]
    ELSE [type |-> "object",
          properties |-> [k \in DOMAIN shape |-> [type |-> shape[k].type]],
          required |-> {k \in DOMAIN shape : ~shape[k].optional}]

resolver(schema) ==
    IF schema.ref # ""
    THEN [k \in {"$ref"} |-> "#/components/schemas/" \o schema.ref]
    ELSE InlineSchema(schema.shape)

validationErrorSchema ==
    [type |-> "object",
     properties |->
        [errors |->
            [type |-> "array",
             items |-> [type |-> "object",
                        properties |-> [field |-> [type |-> "string"],
                                        message |-> [type |-> "string"]],
                        required |-> {"field", "message"}]]],
     required |-> {"errors"}]

internalErrorSchema ==
    [type |-> "object",
     properties |-> [error |-> [type |-> "string"]],
     required |-> {"error"}]

\* The status codes createRouteConfig documents, and its two fixed entries.
DocumentedStatuses == {"200", "400", "500"}
BadRequestResponse == [description |-> "Bad request", schema |-> validationErrorSchema]
InternalErrorResponse ==
    [description |-> "Internal server error", schema |-> internalErrorSchema]

\* A variant that confuses the two descriptions; DocumentedResponses must
\* fail against it.
createRouteConfig_Swapped(description, responseSchema, responseDescription) ==
    [description |-> responseDescription,
     responses |->
        [code \in DocumentedStatuses |->
            IF code = "200"
            THEN [description |-> description, schema |-> resolver(responseSchema)]
            ELSE IF code = "400" THEN BadRequestResponse
            ELSE InternalErrorResponse]]

createRouteConfig(description, responseSchema, responseDescription) ==
    [description |-> description,
     responses |->
        [code \in DocumentedStatuses |->
            IF code = "200"
            THEN [description |-> responseDescription,
                  schema |-> resolver(responseSchema)]
            ELSE IF code = "400" THEN BadRequestResponse
            ELSE InternalErrorResponse]]

(***************************************************************************)
(* Paths.  A route path is a sequence of segments, literal or ':name'; a    *)
(* request path is the sequence of its literal segments.                    *)
(***************************************************************************)
Lit(name) == [param |-> FALSE, name |-> name]
Par(name) == [param |-> TRUE, name |-> name]

OpenapiPath == <<Lit("openapi")>>
UsersPath == <<Lit("users")>>
UserByIdPath == <<Lit("users"), Par("id")>>
AnyPath == <<Lit("*")>>      \* the path of middleware added without a path

\* The router's test of a request path against a route path.
PathMatches(path, reqPath) ==
    \/ path = AnyPath
    \/ /\ Len(path) = Len(reqPath)
       /\ \A i \in 1..Len(path) : path[i].param \/ path[i].name = reqPath[i]

\* c.req.param(): the segments captured by the matched route path.
PathParams(path, reqPath) ==
    LET names == {path[i].name : i \in {j \in 1..Len(path) : path[j].param}}
    IN  [n \in names |-> reqPath[CHOOSE i \in 1..Len(path) : path[i].param /\ path[i].name = n]]

\* hono-openapi's toOpenAPIPath: ':name' becomes '{name}'.
RECURSIVE toOpenAPIPath(_)
toOpenAPIPath(path) ==
    IF path = <<>> THEN ""
    ELSE "/" \o (IF Head(path).param THEN "{" \o Head(path).name \o "}" ELSE Head(path).name)
         \o toOpenAPIPath(Tail(path))

(***************************************************************************)
(* PhatsAPI: constructor and route registration.                            *)
(***************************************************************************)
\* The single schema or the CompoundRequest handed to get/post/put/delete.
Single(schema) == [single |-> TRUE, schema |-> schema,
                   compound |-> Compound(Undefined, Undefined, Undefined)]
Split(p, q, j) == [single |-> FALSE, schema |-> Undefined, compound |-> Compound(p, q, j)]

\* compoundRequest.X ?? z.object({})
OrEmptyObject(schema) == IF schema.kind = "undefined" THEN ZObject(EmptyObj) ELSE schema

\* The entry addMethod registers: describeRoute, the three validators and
\* the closure over handleRequest, all under one method and path.
addMethod(method, path, requestSchema, responseSchema, description, defaultSchemaLocation) ==
    LET routeConfig == createRouteConfig(description, responseSchema, "Successful response")
        compoundRequest ==
            IF requestSchema.single
            THEN IF defaultSchemaLocation = "query"
                 THEN Compound(Undefined, requestSchema.schema, Undefined)
                 ELSE Compound(Undefined, Undefined, requestSchema.schema)
            ELSE requestSchema.compound
    IN  [kind |-> "api",
         method |-> method,
         path |-> path,
         routeConfig |-> routeConfig,
         paramSchema |-> OrEmptyObject(compoundRequest.param),
         querySchema |-> OrEmptyObject(compoundRequest.query),
         jsonSchema |-> OrEmptyObject(compoundRequest.json),
         compoundRequest |-> compoundRequest,
         responseSchema |-> responseSchema]

\* this.hono.get("/openapi", openAPISpecs(this.hono, openapiOptions))
OpenApiRoute == [kind |-> "openapi", method |-> "get", path |-> OpenapiPath]

\* this.hono.use(...args): middleware for every method, under the given path
\* or under '*' when no path is given.
UseRoute(path) == [kind |-> "use", method |-> "ALL", path |-> path]

\* A variant that registers the json validator before the param validator;
\* ChecksRunInFixedOrder must fail against it.
HandlersOf_JsonFirst(route) ==
    IF route.kind = "openapi"
    THEN <<"openAPISpecs">>
    ELSE IF route.kind = "use"
    THEN <<"middleware">>
    ELSE <<"describeRoute", "validateJson", "validateParam", "validateQuery", "handleRequest">>

\* The handlers one registration contributes to a request's chain, in order.
HandlersOf(route) ==
    IF route.kind = "openapi"
    THEN <<"openAPISpecs">>
    ELSE IF route.kind = "use"
    THEN <<"middleware">>
    ELSE <<"describeRoute", "validateParam", "validateQuery", "validateJson", "handleRequest">>

(***************************************************************************)
(* The route declarations an application makes.                             *)
(***************************************************************************)
NameReq == [k \in {"name"} |-> Field("string", FALSE)]
NameOpt == [k \in {"name"} |-> Field("string", TRUE)]
IdStr == [k \in {"id"} |-> Field("string", FALSE)]
IdNumOpt == [k \in {"id"} |-> Field("number", TRUE)]

MessageSchema == [shape |-> NameReq, ref |-> ""]
UserSchema == [shape |-> Spread(IdStr, NameOpt), ref |-> "User"]

Declarations ==
    { [path |-> UsersPath, requestSchema |-> Single(ZObject(NameReq)),
       responseSchema |-> MessageSchema, description |-> "Greets the user"],
      [path |-> UsersPath, requestSchema |-> Single(ZObject(NameOpt)),
       responseSchema |-> MessageSchema, description |-> "Lists users"],
      [path |-> UserByIdPath,
       requestSchema |-> Split(ZObject(IdStr), Undefined, ZObject(NameReq)),
       responseSchema |-> UserSchema, description |-> "Update a user"],
      [path |-> UserByIdPath,
       requestSchema |-> Split(ZObject(IdStr), ZObject(NameOpt), ZObject(IdNumOpt)),
       responseSchema |-> UserSchema, description |-> "Patch a user"],
      [path |-> UsersPath,
       requestSchema |-> Split(Undefined, ZObject(NameOpt), ZEffects(IdNumOpt)),
       responseSchema |-> MessageSchema, description |-> "Search users"] }

ExampleInfo == [title |-> "My API", version |-> "1.0.0"]
InfoOptions == { ExampleInfo, [title |-> "Hono", version |-> "2.0.0"] }

(***************************************************************************)
(* Requests.                                                                *)
(***************************************************************************)
Verbs == {"get", "post", "put", "delete"}

NoBody == [kind |-> "none", value |-> JScalar]
MalformedBody == [kind |-> "malformed", value |-> JScalar]
JsonBody(v) == [kind |-> "json", value |-> v]

\* The bodies sent: none, text that is no JSON, a JSON number, or a JSON
\* object whose name, when present, is a string.
Bodies ==
    {NoBody, MalformedBody, JsonBody(JScalar)}
    \cup {JsonBody(JObj(o)) :
            o \in {b \in ObjectsOver(BodyVals) :
                     "name" \in DOMAIN b => TypeOf(b["name"]) = "string"}}

RequestPaths == {<<"openapi">>, <<"users">>} \cup {<<"users", v>> : v \in ParamVals}

\* A GET request carries no body (the Request constructor refuses one).
Requests ==
    { r \in [method : Verbs, path : RequestPaths, query : ObjectsOver(QueryVals),
             body : Bodies, jsonContentType : BOOLEAN] :
        r.method = "get" => r.body = NoBody }

NoRequest == [method |-> "", path |-> <<>>, query |-> EmptyObj, body |-> NoBody,
              jsonContentType |-> FALSE]

\* What a handler does when invoked: it returns an object, throws an Error
\* (or returns a rejected promise), or throws an HTTPException.
HandlerOutcomes ==
    {[kind |-> "return", value |-> o, status |-> 0] : o \in ObjectsOver(ResultVals)}
    \cup {[kind |-> "throw", value |-> EmptyObj, status |-> 0],
          [kind |-> "http", value |-> EmptyObj, status |-> 404]}

NoOutcome == [kind |-> "none", value |-> EmptyObj, status |-> 0]
NoResponse == [status |-> 0, type |-> "none", body |-> [text |-> ""]]

(***************************************************************************)
(* Hono: routing, handler composition, default handlers.                    *)
(***************************************************************************)
RouteMatches(route, req) ==
    /\ route.method = req.method \/ route.method = "ALL"
    /\ PathMatches(route.path, req.path)

\* A variant that runs the handlers of the routes before the middleware;
\* MatchingMiddlewareGuardsLaterRoutes must fail against it.
RECURSIVE MatchedHandlers_MiddlewareLast(_, _, _)
MatchedHandlers_MiddlewareLast(rts, req, i) ==
    IF i > Len(rts)
    THEN <<>>
    ELSE IF rts[i].kind = "use"
    THEN MatchedHandlers_MiddlewareLast(rts, req, i + 1)
         \o (IF RouteMatches(rts[i], req)
             THEN <<[route |-> i, h |-> "middleware"]>>
             ELSE <<>>)
    ELSE (IF RouteMatches(rts[i], req)
          THEN [j \in 1..Len(HandlersOf(rts[i])) |-> [route |-> i, h |-> HandlersOf(rts[i])[j]]]
          ELSE <<>>)
         \o MatchedHandlers_MiddlewareLast(rts, req, i + 1)

\* The handlers matched for a request, in registration order.
RECURSIVE MatchedHandlers(_, _, _)
MatchedHandlers(rts, req, i) ==
    IF i > Len(rts)
    THEN <<>>
    ELSE (IF RouteMatches(rts[i], req)
          THEN [j \in 1..Len(HandlersOf(rts[i])) |-> [route |-> i, h |-> HandlersOf(rts[i])[j]]]
          ELSE <<>>)
         \o MatchedHandlers(rts, req, i + 1)

\* The receiver of a call of fetch: the instance, as in api.fetch(request),
\* or nothing, when fetch is passed on as a detached function reference.
Instance == "api"
Detached == "undefined"
Receivers == {Instance, Detached}

IdleCtx ==
    [pc |-> "idle", req |-> NoRequest, chain |-> <<>>, pos |-> 0,
     json |-> JScalar, input |-> EmptyObj, calls |-> 0, outcome |-> NoOutcome,
     response |-> NoResponse, log |-> <<>>, receiver |-> Instance]

notFoundHandler == TextResponse("404 Not Found", 404)

\* What a handler may throw.
HTTPException(status, message) == [kind |-> "http", status |-> status, message |-> message]
ZodError(issues) == [kind |-> "zod", status |-> 0, message |-> "ZodError"]
PlainError == [kind |-> "error", status |-> 0, message |-> "Error"]

\* A variant that reports the error's own message; FailureAnswered500 must
\* fail against it.
errorHandler_Detailed(err) ==
    TextResponse(err.message, IF err.kind = "http" THEN err.status ELSE 500)

\* Hono's default error handler: an error that carries its own response
\* (HTTPException) is answered with it, anything else with a plain 500.
errorHandler(err) ==
    IF err.kind = "http"
    THEN TextResponse(err.message, err.status)
    ELSE TextResponse("Internal Server Error", 500)

\* A variant that runs the step again when it ended in a 500;
\* HandlerInvokedAtMostOnce must fail against it.
Respond_Retrying(c, step, response) ==
    IF response.status = 500 /\ c.calls = 1
    THEN [c EXCEPT !.log = Append(@, step)]
    ELSE [c EXCEPT !.pc = "done", !.response = response, !.log = Append(@, step)]

Respond(c, step, response) ==
    [c EXCEPT !.pc = "done", !.response = response, !.log = Append(@, step)]

\* await next(): the following matched handler runs; past the last one the
\* response stays the default 404.
CallNext(c, step) ==
    IF c.pos < Len(c.chain)
    THEN [c EXCEPT !.pos = @ + 1, !.log = Append(@, step)]
    ELSE Respond(c, step, notFoundHandler)

Cur(i) == ctx[i].chain[ctx[i].pos]
CurRoute(i) == routes[Cur(i).route]
At(i, h) == ctx[i].pc = "chain" /\ Cur(i).h = h

(***************************************************************************)
(* hono-openapi: the document openAPISpecs generates from hono.routes.      *)
(***************************************************************************)
DefaultInfo ==
    [title |-> "Hono Documentation", version |-> "0.0.0",
     description |-> "Development documentation"]

\* What a validator("param" | "query", schema) documents: one parameter per
\* field of the schema, a path parameter for the param target.
RECURSIVE ValidatorParameters(_, _, _)
ValidatorParameters(target, schema, i) ==
    IF i > Len(KeyOrder)
    THEN <<>>
    ELSE (IF KeyOrder[i] \in DOMAIN schema.shape
          THEN <<[schema |-> [type |-> schema.shape[KeyOrder[i]].type],
                  in |-> IF target = "param" THEN "path" ELSE target,
                  name |-> KeyOrder[i],
                  required |-> ~schema.shape[KeyOrder[i]].optional]>>
          ELSE <<>>)
         \o ValidatorParameters(target, schema, i + 1)

\* A variant whose json validator documents an empty object whatever the
\* schema; RequestBodyDocumented must fail against it.
ValidatorRequestBody_Empty(schema) == [schema |-> InlineSchema(EmptyObj)]

\* What validator("json", schema) documents: the application/json request body.
ValidatorRequestBody(schema) == [schema |-> InlineSchema(schema.shape)]

\* A variant that leaves the path parameters out; ParametersDocumented must
\* fail against it.
OperationDocs_NoPathParameters(route, parameters) ==
    [description |-> route.routeConfig.description,
     responses |-> route.routeConfig.responses,
     parameters |-> parameters
                    \o ValidatorParameters("query", route.querySchema, 1),
     requestBody |-> ValidatorRequestBody(route.jsonSchema)]

\* The operation a route's describeRoute and validators document, added to
\* the parameters the path and method already carry.
OperationDocs(route, parameters) ==
    [description |-> route.routeConfig.description,
     responses |-> route.routeConfig.responses,
     parameters |-> parameters
                    \o ValidatorParameters("param", route.paramSchema, 1)
                    \o ValidatorParameters("query", route.querySchema, 1),
     requestBody |-> ValidatorRequestBody(route.jsonSchema)]

\* A variant that replaces the path's entry instead of extending it;
\* EveryRouteDocumented must fail against it.
registerSchemaPath_Replacing(schema, route) ==
    LET path == toOpenAPIPath(route.path)
        operation == OperationDocs(route, <<>>)
    IN  [p \in DOMAIN schema \cup {path} |->
            IF p = path THEN [m \in {route.method} |-> operation] ELSE schema[p]]

\* One described route is entered under its OpenAPI path and its method. A
\* later registration of the same path and method replaces the description,
\* the responses and the request body, and appends its parameters.
registerSchemaPath(schema, route) ==
    LET path == toOpenAPIPath(route.path)
        existing == IF path \in DOMAIN schema THEN schema[path] ELSE <<>>
        operation == OperationDocs(route,
                                   IF route.method \in DOMAIN existing
                                   THEN existing[route.method].parameters
                                   ELSE <<>>)
        methods == [m \in DOMAIN existing \cup {route.method} |->
                        IF m = route.method THEN operation ELSE existing[m]]
    IN  [p \in DOMAIN schema \cup {path} |->
            IF p = path THEN methods ELSE schema[p]]

RECURSIVE DescribedPaths(_, _, _)
DescribedPaths(rts, i, schema) ==
    IF i > Len(rts)
    THEN schema
    ELSE DescribedPaths(rts, i + 1,
                        IF rts[i].kind = "api" THEN registerSchemaPath(schema, rts[i])
                        ELSE schema)

\* A variant that leaves the constructor's info out; DocumentServed must
\* fail against it.
generateSpecs_DefaultInfo(rts, documentationInfo) ==
    [openapi |-> "3.1.0",
     info |-> DefaultInfo,
     paths |-> DescribedPaths(rts, 1, <<>>)]

generateSpecs(rts, documentationInfo) ==
    [openapi |-> "3.1.0",
     info |-> Spread(DefaultInfo, documentationInfo),
     paths |-> DescribedPaths(rts, 1, <<>>)]

NoSpecs == [cached |-> FALSE, doc |-> <<>>]

(***************************************************************************)
(* The state after `new PhatsAPI(openapiOptions)`.                          *)
(***************************************************************************)
Init ==
    /\ info \in InfoOptions
    /\ routes = <<OpenApiRoute>>
    /\ built = FALSE
    /\ specs = NoSpecs
    /\ ctx = [i \in ReqIds |-> IdleCtx]

UserRoutes == {i \in 1..Len(routes) : routes[i].kind = "api"}

\* hono[method](path, ...): the router accepts routes until its matcher is
\* built by the first request; after that registering throws.
Register(route, max) ==
    /\ ~built
    /\ Cardinality(UserRoutes) < max
    /\ routes' = Append(routes, route)
    /\ UNCHANGED <<info, built, specs, ctx>>

Get(d, max) ==
    Register(addMethod("get", d.path, d.requestSchema, d.responseSchema,
                       d.description, "query"), max)

Post(d, max) ==
    Register(addMethod("post", d.path, d.requestSchema, d.responseSchema,
                       d.description, "json"), max)

Put(d, max) ==
    Register(addMethod("put", d.path, d.requestSchema, d.responseSchema,
                       d.description, "json"), max)

Delete(d, max) ==
    Register(addMethod("delete", d.path, d.requestSchema, d.responseSchema,
                       d.description, "json"), max)

\* The registrations made by use.
Middlewares == {i \in 1..Len(routes) : routes[i].kind = "use"}

\* A variant that puts the middleware before everything registered so far;
\* DocumentServedDespiteMiddleware must fail against it.
Use_Prepending(path, max) ==
    /\ ~built
    /\ Cardinality(Middlewares) < max
    /\ routes' = <<UseRoute(path)>> \o routes
    /\ UNCHANGED <<info, built, specs, ctx>>

\* use(middleware) and use(path, middleware).
Use(path, max) ==
    /\ ~built
    /\ Cardinality(Middlewares) < max
    /\ routes' = Append(routes, UseRoute(path))
    /\ UNCHANGED <<info, built, specs, ctx>>

(***************************************************************************)
(* fetch: a request enters the application.                                 *)
(***************************************************************************)
\* A variant whose router is not frozen by the first request;
\* RequestHandlingKeepsNoState must fail against it.
Fetch_NotBuilding(i, req) ==
    /\ ctx[i].pc = "idle"
    /\ MatchedHandlers(routes, req, 1) # <<>>
    /\ ctx' = [ctx EXCEPT ![i] =
                 [IdleCtx EXCEPT !.pc = "chain", !.req = req,
                                 !.chain = MatchedHandlers(routes, req, 1), !.pos = 1]]
    /\ UNCHANGED <<info, routes, built, specs>>

Fetch(i, req) ==
    /\ ctx[i].pc = "idle"
    /\ MatchedHandlers(routes, req, 1) # <<>>
    /\ ctx' = [ctx EXCEPT ![i] =
                 [IdleCtx EXCEPT !.pc = "chain", !.req = req,
                                 !.chain = MatchedHandlers(routes, req, 1), !.pos = 1]]
    /\ built' = TRUE
    /\ UNCHANGED <<info, routes, specs>>

\* A request that matches no registration is answered by the notFound handler.
FetchUnmatched(i, req) ==
    /\ ctx[i].pc = "idle"
    /\ MatchedHandlers(routes, req, 1) = <<>>
    /\ req.query = EmptyObj /\ req.body = NoBody /\ ~req.jsonContentType
    /\ ctx' = [ctx EXCEPT ![i] =
                 [IdleCtx EXCEPT !.pc = "done", !.req = req, !.response = notFoundHandler]]
    /\ built' = TRUE
    /\ UNCHANGED <<info, routes, specs>>

\* A variant of the /openapi handler that hands the request on when another
\* handler follows it; DocumentationEndpointWins must fail against it.
OpenAPISpecs_CallingNext(i) ==
    /\ At(i, "openAPISpecs")
    /\ LET doc == IF specs.cached THEN specs.doc ELSE generateSpecs(routes, info)
       IN  /\ specs' = [cached |-> TRUE, doc |-> doc]
           /\ ctx' = [ctx EXCEPT ![i] =
                        IF @.pos < Len(@.chain)
                        THEN CallNext(@, "openAPISpecs")
                        ELSE Respond(@, "openAPISpecs", JsonResponse(doc, 200))]
    /\ UNCHANGED <<info, routes, built>>

(***************************************************************************)
(* PhatsAPI.fetch.  The constructor replaces the method by                  *)
(* this.fetch.bind(this); its body is this.hono.fetch(...args).             *)
(***************************************************************************)
\* A variant that leaves the method unbound: `this` is the receiver of the
\* call; FetchAddsNothing must fail against it.
bind_Unbound(thisArg, receiver) == receiver

\* fn.bind(thisArg): `this` in a call of the bound function is thisArg,
\* whatever the receiver of the call.
bind(thisArg, receiver) == thisArg

\* hono.fetch(request): the context in which the application handles the
\* request.
honoFetch(rts, req) ==
    IF MatchedHandlers(rts, req, 1) # <<>>
    THEN [IdleCtx EXCEPT !.pc = "chain", !.req = req,
                         !.chain = MatchedHandlers(rts, req, 1), !.pos = 1]
    ELSE [IdleCtx EXCEPT !.pc = "done", !.req = req, !.response = notFoundHandler]

\* A call of the instance's fetch property with the given receiver.  Were
\* `this` not the instance, reading this.hono would throw a TypeError, which
\* the server answers with 500.
FetchCalled(i, req, receiver) ==
    /\ ctx[i].pc = "idle"
    /\ LET this == bind(Instance, receiver)
       IN  IF this = Instance
           THEN /\ ctx' = [ctx EXCEPT ![i] =
                             [honoFetch(routes, req) EXCEPT !.receiver = receiver]]
                /\ built' = TRUE
           ELSE /\ ctx' = [ctx EXCEPT ![i] =
                             [IdleCtx EXCEPT
                                 !.pc = "done", !.req = req,
                                 !.response = TextResponse("Internal Server Error", 500),
                                 !.receiver = receiver]]
                /\ built' = built
    /\ UNCHANGED <<info, routes, specs>>

\* The /openapi handler: the document is generated on the first request and
\* served from the closure's cache afterwards.
OpenAPISpecs(i) ==
    /\ At(i, "openAPISpecs")
    /\ LET doc == IF specs.cached THEN specs.doc ELSE generateSpecs(routes, info)
       IN  /\ specs' = [cached |-> TRUE, doc |-> doc]
           /\ ctx' = [ctx EXCEPT ![i] = Respond(@, "openAPISpecs", JsonResponse(doc, 200))]
    /\ UNCHANGED <<info, routes, built>>

\* A middleware added with use: it awaits next(), or it answers itself, as
\* bearerAuth does with 401 for a request without the token.
Middleware(i, calledNext) ==
    /\ At(i, "middleware")
    /\ ctx' = [ctx EXCEPT ![i] =
                 IF calledNext
                 THEN CallNext(@, "middleware")
                 ELSE Respond(@, "middleware",
                              errorHandler(HTTPException(401, "Unauthorized")))]
    /\ UNCHANGED <<info, routes, built, specs>>

\* describeRoute only carries documentation; it passes the request on.
DescribeRoute(i) ==
    /\ At(i, "describeRoute")
    /\ ctx' = [ctx EXCEPT ![i] = CallNext(@, "describeRoute")]
    /\ UNCHANGED <<info, routes, built, specs>>

(***************************************************************************)
(* validator(target, schema): hono's validator reads the target's value,    *)
(* the zod validator answers a failed safeParse with c.json(result, 400).   *)
(***************************************************************************)
\* The value hono's validator hands to the schema, or the exception it throws:
\* the body is read only under a JSON Content-Type, and is {} otherwise.
ValidatorValue(target, route, req) ==
    IF target = "param"
    THEN [threw |-> FALSE, value |-> JObj(PathParams(route.path, req.path))]
    ELSE IF target = "query"
    THEN [threw |-> FALSE, value |-> JObj(req.query)]
    ELSE IF ~req.jsonContentType
    THEN [threw |-> FALSE, value |-> JObj(EmptyObj)]
    ELSE IF req.body.kind = "json"
    THEN [threw |-> FALSE, value |-> req.body.value]
    ELSE [threw |-> TRUE, value |-> JScalar]

\* JSON.stringify of the failed SafeParseReturnType.
SafeParseFailure(issues) ==
    [success |-> FALSE, error |-> [issues |-> issues, name |-> "ZodError"]]

Validate(c, step, target, schema, route) ==
    LET v == ValidatorValue(target, route, c.req)
        result == SafeParse(schema, v.value)
    IN  IF v.threw
        THEN Respond(c, step, errorHandler(HTTPException(400, "Malformed JSON in request body")))
        ELSE IF ~result.success
        THEN Respond(c, step, JsonResponse(SafeParseFailure(result.issues), 400))
        ELSE CallNext(c, step)

ValidateParam(i) ==
    /\ At(i, "validateParam")
    /\ ctx' = [ctx EXCEPT ![i] =
                 Validate(@, "validateParam", "param", CurRoute(i).paramSchema, CurRoute(i))]
    /\ UNCHANGED <<info, routes, built, specs>>

ValidateQuery(i) ==
    /\ At(i, "validateQuery")
    /\ ctx' = [ctx EXCEPT ![i] =
                 Validate(@, "validateQuery", "query", CurRoute(i).querySchema, CurRoute(i))]
    /\ UNCHANGED <<info, routes, built, specs>>

ValidateJson(i) ==
    /\ At(i, "validateJson")
    /\ ctx' = [ctx EXCEPT ![i] =
                 Validate(@, "validateJson", "json", CurRoute(i).jsonSchema, CurRoute(i))]
    /\ UNCHANGED <<info, routes, built, specs>>

(***************************************************************************)
(* handleRequest, one action per await.                                     *)
(***************************************************************************)
\* await c.req.json().catch(() => ({}))
ReadJson(req) == IF req.body.kind = "json" THEN req.body.value ELSE JObj(EmptyObj)

\* { ...params, ...query, ...json }
MergedInput(params, query, json) ==
    Spread(Spread(params, query), IF json.isObj THEN json.obj ELSE EmptyObj)

\* A variant whose parse keeps the keys the schema does not declare;
\* OnlyDeclaredKeysReachHandler must fail against it.
parseAsync_Passthrough(schema, data) ==
    LET r == SafeParse(schema, JObj(data))
    IN  [threw |-> IF r.success THEN "none" ELSE "ZodError", data |-> data, issues |-> r.issues]

\* mergedSchema.parseAsync(data): the parsed object, or the ZodError thrown.
parseAsync(schema, data) ==
    LET r == SafeParse(schema, JObj(data))
    IN  [threw |-> IF r.success THEN "none" ELSE "ZodError", data |-> r.data, issues |-> r.issues]

\* A variant that keeps the body it read in one place for all requests;
\* ConcurrentRequestsIsolated must fail against it.
HandleRequestJson_Shared(i) ==
    /\ At(i, "handleRequest")
    /\ ctx' = [k \in ReqIds |->
                 IF k = i
                 THEN [ctx[k] EXCEPT !.pc = "parse", !.json = ReadJson(ctx[i].req),
                                     !.log = Append(@, "readJson")]
                 ELSE [ctx[k] EXCEPT !.json = ReadJson(ctx[i].req)]]
    /\ UNCHANGED <<info, routes, built, specs>>

HandleRequestJson(i) ==
    /\ At(i, "handleRequest")
    /\ ctx' = [ctx EXCEPT ![i] =
                 [@ EXCEPT !.pc = "parse", !.json = ReadJson(ctx[i].req),
                           !.log = Append(@, "readJson")]]
    /\ UNCHANGED <<info, routes, built, specs>>

\* A variant of handleRequest that awaits the handler before it looks at the
\* result of the merged parse; HandlerNotInvokedOnRejection must fail
\* against it.
HandleRequestParse_HandlerFirst(i) ==
    /\ ctx[i].pc = "parse"
    /\ LET c == [ctx[i] EXCEPT !.calls = @ + 1]
           route == CurRoute(i)
           params == PathParams(route.path, c.req.path)
           mergedSchema == mergeSchemas(route.compoundRequest)
           parsed == parseAsync(mergedSchema, MergedInput(params, c.req.query, c.json))
       IN  ctx' = [ctx EXCEPT ![i] =
                     IF parsed.threw = "ZodError"
                     THEN Respond(c, "mergedParse", handleZodError(parsed.issues))
                     ELSE Respond(c, "handler", JsonResponse(parsed.data, 200))]
    /\ UNCHANGED <<info, routes, built, specs>>

HandleRequestParse(i) ==
    /\ ctx[i].pc = "parse"
    /\ LET c == ctx[i]
           route == CurRoute(i)
           params == PathParams(route.path, c.req.path)
           mergedSchema == mergeSchemas(route.compoundRequest)
           parsed == parseAsync(mergedSchema, MergedInput(params, c.req.query, c.json))
       IN  ctx' = [ctx EXCEPT ![i] =
                     IF parsed.threw = "ZodError"
                     THEN Respond(c, "mergedParse", handleZodError(parsed.issues))
                     ELSE IF parsed.threw # "none"
                     THEN Respond(c, "mergedParse",
                                  JsonResponse([error |-> "Internal Server Error"], 500))
                     ELSE [c EXCEPT !.pc = "handler", !.input = parsed.data,
                                    !.log = Append(@, "mergedParse")]]
    /\ UNCHANGED <<info, routes, built, specs>>

\* A variant that sends what the handler returned without parsing it;
\* OkBodySatisfiesResponseSchema must fail against it.
ResponseFor_Unparsed(route, outcome) ==
    IF outcome.kind = "return"
    THEN JsonResponse(outcome.value, 200)
    ELSE IF outcome.kind = "http"
    THEN errorHandler(HTTPException(outcome.status, "Not Found"))
    ELSE errorHandler(PlainError)

\* A variant that answers a successful post with 201 Created;
\* DocumentedSuccessStatusReturned must fail against it.
ResponseFor_Created(route, outcome) ==
    IF outcome.kind = "return"
    THEN LET r == SafeParse(ZObject(route.responseSchema.shape), JObj(outcome.value))
         IN  IF r.success
             THEN JsonResponse(r.data, IF route.method = "post" THEN 201 ELSE 200)
             ELSE errorHandler(ZodError(r.issues))
    ELSE IF outcome.kind = "http"
    THEN errorHandler(HTTPException(outcome.status, "Not Found"))
    ELSE errorHandler(PlainError)

\* responseSchema.parse(response): a result the schema rejects throws a ZodError.
ResponseFor(route, outcome) ==
    IF outcome.kind = "return"
    THEN LET r == SafeParse(ZObject(route.responseSchema.shape), JObj(outcome.value))
         IN  IF r.success
             THEN JsonResponse(r.data, 200)
             ELSE errorHandler(ZodError(r.issues))
    ELSE IF outcome.kind = "http"
    THEN errorHandler(HTTPException(outcome.status, "Not Found"))
    ELSE errorHandler(PlainError)

\* await handler(request); return c.json(responseSchema.parse(response), 200).
\* Nothing in handleRequest catches what the handler or the response parse
\* throws: it reaches Hono's error handler.
HandleRequestHandler(i, outcome) ==
    /\ ctx[i].pc = "handler"
    /\ ctx' = [ctx EXCEPT ![i] =
                 Respond([@ EXCEPT !.calls = @ + 1, !.outcome = outcome],
                         "handler", ResponseFor(CurRoute(i), outcome))]
    /\ UNCHANGED <<info, routes, built, specs>>

\* The response has been returned from fetch; the context is dropped.
Finish(i) ==
    /\ ctx[i].pc = "done"
    /\ ctx' = [ctx EXCEPT ![i] = IdleCtx]
    /\ UNCHANGED <<info, routes, built, specs>>

(***************************************************************************)
(* The specification.                                                       *)
(***************************************************************************)
\* get, post, put, delete with any of the declarations, up to max routes.
Registration(max) ==
    \/ \E d \in Declarations : Get(d, max)
    \/ \E d \in Declarations : Post(d, max)
    \/ \E d \in Declarations : Put(d, max)
    \/ \E d \in Declarations : Delete(d, max)

\* The steps of a request to a route registered with get, post, put or delete.
Handling ==
    \/ \E i \in ReqIds : DescribeRoute(i)
    \/ \E i \in ReqIds : ValidateParam(i)
    \/ \E i \in ReqIds : ValidateQuery(i)
    \/ \E i \in ReqIds : ValidateJson(i)
    \/ \E i \in ReqIds : HandleRequestJson(i)
    \/ \E i \in ReqIds : HandleRequestParse(i)
    \/ \E i \in ReqIds, o \in HandlerOutcomes : HandleRequestHandler(i, o)
    \/ \E i \in ReqIds : Finish(i)

DocRequests == {r \in Requests : r.method = "get" /\ r.path = <<"openapi">>}

\* Spec: an application registers its routes and serves requests to them,
\* one after another (the request in flight occupies the first slot).
Next ==
    \/ Registration(MaxRoutes)
    \/ \E req \in Requests \ DocRequests : Fetch(1, req)
    \/ \E req \in Requests \ DocRequests : FetchUnmatched(1, req)
    \/ Handling

\* The instance whose requests are followed is the documentation's example.
InitExample == Init /\ info = ExampleInfo

Spec == InitExample /\ [][Next]_vars

\* SpecDoc: an application registers its routes and serves its document.
NextDoc ==
    \/ Registration(MaxDocRoutes)
    \/ \E req \in DocRequests : Fetch(1, req)
    \/ \E i \in ReqIds : OpenAPISpecs(i)
    \/ \E i \in ReqIds : Finish(i)

SpecDoc == Init /\ [][NextDoc]_vars

\* SpecConcurrent: an application registers a post route and serves requests
\* to it and to /openapi, several in flight at once; the steps of the
\* requests in flight interleave in any order.
ConcurrentDeclarations == {d \in Declarations : d.description = "Lists users"}

DocRequest ==
    [method |-> "get", path |-> <<"openapi">>, query |-> EmptyObj, body |-> NoBody,
     jsonContentType |-> FALSE]

ConcurrentRequests ==
    {DocRequest}
    \cup {[method |-> "post", path |-> <<"users">>, query |-> EmptyObj, body |-> b.body,
           jsonContentType |-> b.jsonContentType] :
            b \in {[body |-> JsonBody(JObj([k \in {"name"} |-> "b"])),
                    jsonContentType |-> TRUE],
                   [body |-> NoBody, jsonContentType |-> FALSE]}}

NextConcurrent ==
    \/ \E d \in ConcurrentDeclarations : Post(d, MaxRoutes)
    \/ \E i \in ReqIds, req \in ConcurrentRequests : Fetch(i, req)
    \/ \E i \in ReqIds, req \in ConcurrentRequests : FetchUnmatched(i, req)
    \/ \E i \in ReqIds : OpenAPISpecs(i)
    \/ Handling

SpecConcurrent == InitExample /\ [][NextConcurrent]_vars

\* SpecGuarded: an application adds middleware with use, registers a post
\* route or a get route under /openapi, in any order, and serves requests
\* one after another.
OpenapiDeclaration ==
    [path |-> OpenapiPath, requestSchema |-> Single(ZObject(NameOpt)),
     responseSchema |-> MessageSchema, description |-> "Lists documents"]

UsePaths == {AnyPath, UserByIdPath}

GuardedRequests ==
    {DocRequest,
     [method |-> "get", path |-> <<"users", "p">>, query |-> EmptyObj, body |-> NoBody,
      jsonContentType |-> FALSE],
     [method |-> "post", path |-> <<"users">>, query |-> EmptyObj,
      body |-> JsonBody(JObj([k \in {"name"} |-> "b"])), jsonContentType |-> TRUE]}

NextGuarded ==
    \/ \E path \in UsePaths : Use(path, MaxMiddleware)
    \/ \E d \in ConcurrentDeclarations : Post(d, MaxRoutes)
    \/ Get(OpenapiDeclaration, MaxRoutes)
    \/ \E req \in GuardedRequests : Fetch(1, req)
    \/ \E req \in GuardedRequests : FetchUnmatched(1, req)
    \/ \E i \in ReqIds, calledNext \in BOOLEAN : Middleware(i, calledNext)
    \/ \E i \in ReqIds : OpenAPISpecs(i)
    \/ Handling

SpecGuarded == InitExample /\ [][NextGuarded]_vars

\* SpecServed: requests reach the application through the instance's fetch
\* property, called on the instance or as a detached function reference.
ServedRequests ==
    {DocRequest,
     [method |-> "get", path |-> <<"users">>, query |-> EmptyObj, body |-> NoBody,
      jsonContentType |-> FALSE],
     [method |-> "post", path |-> <<"users">>, query |-> EmptyObj,
      body |-> JsonBody(JObj([k \in {"name"} |-> "b"])), jsonContentType |-> TRUE]}

NextServed ==
    \/ \E d \in ConcurrentDeclarations : Post(d, MaxRoutes)
    \/ \E i \in ReqIds, req \in ServedRequests, receiver \in Receivers :
            FetchCalled(i, req, receiver)
    \/ \E i \in ReqIds : OpenAPISpecs(i)
    \/ Handling

SpecServed == InitExample /\ [][NextServed]_vars

(***************************************************************************)
(* Properties of request handling, checked under Spec.  They are stated on  *)
(* the context of an answered request, which keeps the request, the object  *)
(* handed to the handler, what the handler did, and the response.           *)
(***************************************************************************)
\* The request in slot i went to a registered route and has its response.
Answered(i) == ctx[i].pc = "done" /\ ctx[i].chain # <<>>

\* The route's handler was invoked for the request in slot i.
Invoked(i) == Answered(i) /\ ctx[i].calls > 0

\* The step that produced the response.
AnsweredBy(i) == ctx[i].log[Len(ctx[i].log)]

Declared(schema) == schema.kind # "undefined"
Accepts(schema, jv) == SafeParse(schema, jv).success

\* The request's sources as sent.  A request without a body, or with a body
\* that is no JSON, counts as carrying the empty object.
ParamsSent(route, req) == PathParams(route.path, req.path)
BodySent(req) == IF req.body.kind = "json" THEN req.body.value ELSE JObj(EmptyObj)

\* Each declared schema accepts the source it is declared for.
SourcesSatisfy(route, req) ==
    LET declared == route.compoundRequest
    IN  /\ Declared(declared.param) =>
                Accepts(declared.param, JObj(ParamsSent(route, req)))
        /\ Declared(declared.query) => Accepts(declared.query, JObj(req.query))
        /\ Declared(declared.json) => Accepts(declared.json, BodySent(req))

\* The fields of object o that the schema declares.
DeclaredFields(schema, o) ==
    [k \in (DOMAIN schema.shape) \cap (DOMAIN o) |-> o[k]]

\* The handler returned a value the route's response schema accepts.
ReturnedValid(i) ==
    /\ ctx[i].outcome.kind = "return"
    /\ Accepts(ZObject(CurRoute(i).responseSchema.shape), JObj(ctx[i].outcome.value))

\* A route registered with a single schema: no param schema, and the schema
\* at exactly one of query and json.
SingleSchemaRoute(route) ==
    /\ ~Declared(route.compoundRequest.param)
    /\ Declared(route.compoundRequest.query) # Declared(route.compoundRequest.json)

TheSchema(route) ==
    IF Declared(route.compoundRequest.query)
    THEN route.compoundRequest.query
    ELSE route.compoundRequest.json

\* C1: a request to a registered route whose path parameters, query
\* parameters or JSON body do not satisfy the route's declared request
\* schema is answered with status 400.
InvalidRequestAnswered400 ==
    \A i \in ReqIds :
        (Answered(i) /\ ~SourcesSatisfy(CurRoute(i), ctx[i].req))
            => ctx[i].response.status = 400

\* C1, the failing request: a JSON body that is a number, sent without a JSON
\* Content-Type to a route whose single json schema has only optional
\* fields, is answered 200.
NumberBodyAnswered200 ==
    \E i \in ReqIds :
        /\ Answered(i)
        /\ CurRoute(i).compoundRequest = Compound(Undefined, Undefined, ZObject(NameOpt))
        /\ ctx[i].req.body = JsonBody(JScalar)
        /\ ~ctx[i].req.jsonContentType
        /\ ctx[i].response.status = 200

\* The body {errors: [{field, message}, ...]}.
ErrorList(body) ==
    /\ DOMAIN body = {"errors"}
    /\ \A e \in DOMAIN body.errors : DOMAIN body.errors[e] = {"field", "message"}

\* C2: every 400 response to a request that a validator or the merged-schema
\* parse rejected has a JSON body {errors: [...]} of {field, message}
\* entries, whichever check rejected the request.
ValidationFailureListsErrors ==
    \A i \in ReqIds :
        (/\ Answered(i)
         /\ ctx[i].response.status = 400
         /\ AnsweredBy(i) \in {"validateParam", "validateQuery", "validateJson",
                               "mergedParse"})
            => (ctx[i].response.type = "json" /\ ErrorList(ctx[i].response.body))

\* C2, the failing request: the query validator rejects a GET that lacks the
\* required name and answers with the failed parse result itself.
QueryValidatorAnswersParseResult ==
    \E i \in ReqIds :
        /\ Answered(i)
        /\ ctx[i].req.method = "get"
        /\ AnsweredBy(i) = "validateQuery"
        /\ ctx[i].response.status = 400
        /\ DOMAIN ctx[i].response.body = {"success", "error"}

\* The handling failed after validation: the handler threw an error that is
\* no HTTPException (or returned a rejected promise), or it returned a value
\* the response schema rejects.
HandlingFailed(i) ==
    /\ Invoked(i)
    /\ \/ ctx[i].outcome.kind = "throw"
       \/ ctx[i].outcome.kind = "return" /\ ~ReturnedValid(i)

GenericFailure(response) ==
    /\ response.status = 500
    /\ response.body = [text |-> "Internal Server Error"]

ValidRequestAnswered200 ==
    \A i \in ReqIds :
        (/\ Answered(i)
         /\ SourcesSatisfy(CurRoute(i), ctx[i].req)
         /\ (Invoked(i) => ReturnedValid(i)))
            => (/\ Invoked(i)
                /\ ctx[i].response.status = 200
                /\ ctx[i].response.type = "json"
                /\ ctx[i].response.body = ctx[i].outcome.value)

\* C4, the failing request: a GET with the required query parameter and a
\* JSON Content-Type header is answered 400 before the handler runs.
ValidGetAnswered400 ==
    \E i \in ReqIds :
        /\ Answered(i)
        /\ ctx[i].req.method = "get"
        /\ ctx[i].req.jsonContentType
        /\ CurRoute(i).compoundRequest = Compound(Undefined, ZObject(NameReq), Undefined)
        /\ SourcesSatisfy(CurRoute(i), ctx[i].req)
        /\ ~Invoked(i)
        /\ ctx[i].response.status = 400

\* The source a single schema is declared for by the verb's default: the
\* query parameters for get, the JSON body for post, put and delete.
DefaultSource(req) == IF req.method = "get" THEN JObj(req.query) ELSE BodySent(req)

\* C5: a single schema validates the query parameters for get and the JSON
\* body (sent as JSON) for post, put and delete, and the handler receives
\* the validated fields of that source.
SingleSchemaAtDefaultLocation ==
    \A i \in ReqIds :
        (Answered(i) /\ SingleSchemaRoute(CurRoute(i))) =>
            LET req == ctx[i].req
                schema == TheSchema(CurRoute(i))
            IN  /\ ((req.method = "get" \/ req.jsonContentType)
                        /\ ~Accepts(schema, DefaultSource(req)))
                        => (ctx[i].response.status = 400 /\ ~Invoked(i))
                /\ Invoked(i) =>
                        ctx[i].input = DeclaredFields(schema, DefaultSource(req).obj)

\* C5, the failing request: a POST whose JSON body is {} and whose query
\* string carries name; the handler of the route with the single schema
\* {name?} receives the name of the query string.
BodySchemaFedFromQuery ==
    \E i \in ReqIds :
        /\ Invoked(i)
        /\ ctx[i].req.method = "post"
        /\ CurRoute(i).compoundRequest = Compound(Undefined, Undefined, ZObject(NameOpt))
        /\ ctx[i].req.body = JsonBody(JObj(EmptyObj))
        /\ ctx[i].req.jsonContentType
        /\ "name" \in DOMAIN ctx[i].input
        /\ ctx[i].input["name"] \in QueryVals

\* The handler's object holds the fields the schema declares with the
\* values of the source the schema is declared for.
TakenFrom(input, schema, source) ==
    Declared(schema) =>
        \A k \in (DOMAIN schema.shape) \cap (DOMAIN source) :
            k \in DOMAIN input /\ input[k] = source[k]

\* C6: for a route registered with a {param, query, json} object the handler
\* receives one object holding every field declared in the param, query and
\* json schemas, taken from the path parameters, the query parameters and
\* the JSON body respectively.
CompoundInputTakenFromSources ==
    \A i \in ReqIds :
        (Invoked(i) /\ ~SingleSchemaRoute(CurRoute(i))) =>
            LET declared == CurRoute(i).compoundRequest
                req == ctx[i].req
            IN  /\ TakenFrom(ctx[i].input, declared.param, ParamsSent(CurRoute(i), req))
                /\ TakenFrom(ctx[i].input, declared.query, req.query)
                /\ TakenFrom(ctx[i].input, declared.json, BodySent(req).obj)

\* C6, the failing request: PUT /users/p with the JSON body {id, name} to a
\* route declaring id as path parameter and name as body field; the handler
\* receives the id of the body.
PathParamTakenFromBody ==
    \E i \in ReqIds :
        /\ Invoked(i)
        /\ CurRoute(i).compoundRequest = Compound(ZObject(IdStr), Undefined, ZObject(NameReq))
        /\ ctx[i].req.path = <<"users", "p">>
        /\ ctx[i].req.jsonContentType
        /\ ctx[i].input["id"] \in BodyVals

\* C7: whenever the handler is invoked, each of the declared param, query
\* and json schemas accepts the fields it declares of the object passed.
HandlerInputSatisfiesDeclared ==
    \A i \in ReqIds :
        Invoked(i) =>
            LET declared == CurRoute(i).compoundRequest
            IN  /\ Declared(declared.param) => Accepts(declared.param, JObj(ctx[i].input))
                /\ Declared(declared.query) => Accepts(declared.query, JObj(ctx[i].input))
                /\ Declared(declared.json) => Accepts(declared.json, JObj(ctx[i].input))

\* C7, the failing request: a route declaring id as a string path parameter
\* and as an optional number of the body; the handler receives the number.
HandlerGivenNumberForStringParam ==
    \E i \in ReqIds :
        /\ Invoked(i)
        /\ CurRoute(i).compoundRequest.param = ZObject(IdStr)
        /\ CurRoute(i).compoundRequest.json = ZObject(IdNumOpt)
        /\ TypeOf(ctx[i].input["id"]) = "number"

(***************************************************************************)
(* Properties of the served document, checked under SpecDoc.                *)
(***************************************************************************)
\* A GET /openapi request has its response in slot i.
DocAnswered(i) ==
    /\ ctx[i].pc = "done"
    /\ ctx[i].req.method = "get"
    /\ ctx[i].req.path = <<"openapi">>

\* The document's key for a route path: ':id' is written '{id}'.
DocumentedPath(path) == IF path = UsersPath THEN "/users" ELSE "/users/{id}"

\* The route is the registration of declaration d under some verb.
RegisteredFrom(route, d) ==
    /\ route.path = d.path
    /\ route.responseSchema = d.responseSchema
    /\ IF d.requestSchema.single
       THEN route.compoundRequest \in
                {Compound(Undefined, d.requestSchema.schema, Undefined),
                 Compound(Undefined, Undefined, d.requestSchema.schema)}
       ELSE route.compoundRequest = d.requestSchema.compound

\* The JSON Schema documented for a response schema: a reference for the
\* schema named User, the object schema itself for the unnamed one.
DocumentedSchema(responseSchema) ==
    IF responseSchema = UserSchema
    THEN [k \in {"$ref"} |-> "#/components/schemas/User"]
    ELSE [type |-> "object",
          properties |-> [name |-> [type |-> "string"]],
          required |-> {"name"}]

\* C8: a GET /openapi request to any instance, with or without other routes
\* registered, returns status 200 and a JSON document that has an 'openapi'
\* field and whose info.title and info.version are the constructor's.
DocumentServed ==
    \A i \in ReqIds :
        DocAnswered(i) =>
            /\ ctx[i].response.status = 200
            /\ ctx[i].response.type = "json"
            /\ "openapi" \in DOMAIN ctx[i].response.body
            /\ ctx[i].response.body.info["title"] = info.title
            /\ ctx[i].response.body.info["version"] = info.version

\* C8, its cases: the document was served by an instance with no other
\* route, and by one with routes registered.
DocumentServedBare == \E i \in ReqIds : DocAnswered(i) /\ UserRoutes = {}
DocumentServedWithRoutes == \E i \in ReqIds : DocAnswered(i) /\ UserRoutes # {}

\* C9: the document returned by GET /openapi contains, for each registered
\* route, an operation under the route's path, ':name' written '{name}',
\* and under its verb; routes sharing a path under different verbs all appear.
EveryRouteDocumented ==
    \A i \in ReqIds :
        DocAnswered(i) =>
            \A r \in UserRoutes :
                LET paths == ctx[i].response.body.paths
                    key == DocumentedPath(routes[r].path)
                IN  key \in DOMAIN paths /\ routes[r].method \in DOMAIN paths[key]

\* C9, its case: the document was served with two routes registered under
\* the parameterised path and different verbs.
TwoVerbsOnePathDocumented ==
    \E i \in ReqIds :
        /\ DocAnswered(i)
        /\ \E r1, r2 \in UserRoutes :
                /\ routes[r1].path = UserByIdPath
                /\ routes[r2].path = UserByIdPath
                /\ routes[r1].method # routes[r2].method
        /\ Cardinality(DOMAIN ctx[i].response.body.paths["/users/{id}"]) = 2

\* C10: every operation of the document carries the description of a route
\* registered under its path and verb and declares exactly the responses
\* 200, with that route's response schema (a $ref when the schema has a ref
\* name), 400 with the validation-error schema and 500 with {error: string}.
DocumentedResponses ==
    \A i \in ReqIds :
        DocAnswered(i) =>
            LET paths == ctx[i].response.body.paths
            IN  \A key \in DOMAIN paths :
                    \A verb \in DOMAIN paths[key] :
                        LET operation == paths[key][verb]
                        IN  \E r \in UserRoutes, d \in Declarations :
                                /\ routes[r].method = verb
                                /\ DocumentedPath(routes[r].path) = key
                                /\ RegisteredFrom(routes[r], d)
                                /\ operation.description = d.description
                                /\ DOMAIN operation.responses = {"200", "400", "500"}
                                /\ operation.responses["200"].schema =
                                        DocumentedSchema(d.responseSchema)
                                /\ operation.responses["400"].schema = validationErrorSchema
                                /\ operation.responses["500"].schema =
                                        [type |-> "object",
                                         properties |-> [error |-> [type |-> "string"]],
                                         required |-> {"error"}]

\* C10, its case: the document was served with an operation whose response
\* schema is a reference and one whose response schema is written out.
RefAndInlineDocumented ==
    \E i \in ReqIds :
        /\ DocAnswered(i)
        /\ \E r1, r2 \in UserRoutes :
                /\ routes[r1].responseSchema = UserSchema
                /\ routes[r2].responseSchema = MessageSchema

\* The operation the document holds for a route's path and verb.
OperationOf(i, r) ==
    ctx[i].response.body.paths[DocumentedPath(routes[r].path)][routes[r].method]

\* The route is the only one registered under its path and verb.
RegisteredOnce(r) ==
    \A r2 \in UserRoutes :
        (routes[r2].path = routes[r].path /\ routes[r2].method = routes[r].method)
            => r2 = r

\* The parameters a route declares: one per field of the schema it gave for
\* the path parameters, one per field of the schema it gave for the query.
DeclaredParameters(route) ==
    {[schema |-> [type |-> route.compoundRequest.param.shape[k].type],
      in |-> "path", name |-> k, required |-> TRUE] :
        k \in DOMAIN route.compoundRequest.param.shape}
    \cup
    {[schema |-> [type |-> route.compoundRequest.query.shape[k].type],
      in |-> "query", name |-> k,
      required |-> ~route.compoundRequest.query.shape[k].optional] :
        k \in DOMAIN route.compoundRequest.query.shape}

\* The operation's parameters are the declared ones, each listed once.
ParametersAre(operation, declared) ==
    /\ {operation.parameters[n] : n \in 1..Len(operation.parameters)} = declared
    /\ Len(operation.parameters) = Cardinality(declared)

UndeclaredParameterDocumented ==
    \E i \in ReqIds :
        /\ DocAnswered(i)
        /\ \E r \in UserRoutes :
                /\ \A r2 \in UserRoutes : r2 <= r
                /\ ~RegisteredOnce(r)
                /\ \E n \in 1..Len(OperationOf(i, r).parameters) :
                        OperationOf(i, r).parameters[n]
                            \notin DeclaredParameters(routes[r])

\* The operation's request body is the JSON Schema of the declared schema:
\* its fields with their types, the fields that are not optional required.
RequestBodyIs(operation, declared) ==
    LET documented == operation.requestBody.schema
    IN  /\ documented.type = "object"
        /\ DOMAIN declared.shape # {} =>
                /\ "properties" \in DOMAIN documented
                /\ DOMAIN documented.properties = DOMAIN declared.shape
                /\ \A k \in DOMAIN declared.shape :
                        documented.properties[k].type = declared.shape[k].type
                /\ documented.required =
                        {k \in DOMAIN declared.shape : ~declared.shape[k].optional}

\* No parameter of the operation stands for a field that only the json
\* schema of the route declares.
JsonFieldsNotParameters(operation, request) ==
    \A k \in DOMAIN request.json.shape :
        (k \notin DOMAIN request.param.shape \cup DOMAIN request.query.shape) =>
            \A n \in 1..Len(operation.parameters) : operation.parameters[n].name # k

\* C12 as stated: the operation of every registered route that declares a
\* json schema documents that schema as its request body and none of its
\* fields as a parameter. Fails when a path and verb are registered twice:
\* the operation then documents the request body of the later registration.
EveryRouteRequestBodyDocumented ==
    \A i \in ReqIds :
        DocAnswered(i) =>
            \A r \in UserRoutes :
                (routes[r].compoundRequest.json # Undefined) =>
                    /\ RequestBodyIs(OperationOf(i, r), routes[r].compoundRequest.json)
                    /\ JsonFieldsNotParameters(OperationOf(i, r),
                                               routes[r].compoundRequest)

\* C12: a route that declares a json schema, explicitly or as the single
\* schema of post, put or delete, and is the only one registered under its
\* path and verb documents a requestBody whose application/json schema is
\* that json schema, and the fields of the json schema add no parameters.
RequestBodyDocumented ==
    \A i \in ReqIds :
        DocAnswered(i) =>
            \A r \in UserRoutes :
                (RegisteredOnce(r) /\ routes[r].compoundRequest.json # Undefined) =>
                    /\ RequestBodyIs(OperationOf(i, r), routes[r].compoundRequest.json)
                    /\ JsonFieldsNotParameters(OperationOf(i, r),
                                               routes[r].compoundRequest)

\* C12, its case: the document was served with a json schema declared
\* explicitly next to a param schema and with one given as the single schema
\* of post, put or delete, each registered once.
ExplicitAndDefaultJsonDocumented ==
    \E i \in ReqIds :
        /\ DocAnswered(i)
        /\ \E r1, r2 \in UserRoutes, d1, d2 \in Declarations :
                /\ RegisteredOnce(r1) /\ RegisteredOnce(r2)
                /\ RegisteredFrom(routes[r1], d1) /\ ~d1.requestSchema.single
                /\ routes[r1].compoundRequest.param # Undefined
                /\ "name" \in DOMAIN OperationOf(i, r1).requestBody.schema.properties
                /\ RegisteredFrom(routes[r2], d2) /\ d2.requestSchema.single
                /\ routes[r2].method \in {"post", "put", "delete"}
                /\ "name" \in DOMAIN OperationOf(i, r2).requestBody.schema.properties

(***************************************************************************)
(* Further properties of request handling, checked under Spec.              *)
(***************************************************************************)
\* C13: every response with status 500 that a registered route produces has
\* a JSON body of the form {error: <string>}, the 500 schema documented for
\* the route, whatever caused the failure.
InternalErrorBodyDocumented ==
    \A i \in ReqIds :
        (Answered(i) /\ ctx[i].response.status = 500) =>
            /\ ctx[i].response.type = "json"
            /\ DOMAIN ctx[i].response.body = {"error"}

\* C13, the failing request: the handler's result is rejected by the
\* response schema and the request is answered 500 with a plain text body.
RejectedResultAnsweredPlainText ==
    \E i \in ReqIds :
        /\ Invoked(i)
        /\ ctx[i].outcome.kind = "return"
        /\ ~ReturnedValid(i)
        /\ ctx[i].response = TextResponse("Internal Server Error", 500)

\* The handler threw an HTTPException.
HandlerThrewHTTPException(i) == Invoked(i) /\ ctx[i].outcome.kind = "http"

HandlerInvokedAtMostOnce ==
    [][\A i \in ReqIds :
        /\ (ctx'[i].calls > ctx[i].calls) =>
                (ctx[i].calls = 0 /\ ctx'[i].calls = 1 /\ ctx'[i].pc = "done")
        /\ (ctx[i].pc = "done") => (ctx'[i] = ctx[i] \/ ctx'[i] = IdleCtx)
        /\ (ctx[i].pc # "idle" /\ ctx'[i].pc = "idle") =>
                (ctx[i].pc = "done" /\ ctx[i].response # NoResponse)]_vars

\* C15, its case: the handler threw, it had been invoked once, and the one
\* response of the request is the failure.
FailedHandlingNotRetried ==
    \E i \in ReqIds :
        /\ Invoked(i)
        /\ ctx[i].outcome.kind = "throw"
        /\ ctx[i].calls = 1
        /\ ctx[i].response.status = 500
        /\ AnsweredBy(i) = "handler"

\* The request was answered 400 by a validator or by the merged parse.
RejectedByValidation(i) ==
    /\ Answered(i)
    /\ ctx[i].response.status = 400
    /\ AnsweredBy(i) # "handler"

\* C16: the route's handler is never invoked for a request that fails
\* request validation: whenever a validator or the parse against the merged
\* schema answers 400, the handler has not been called.
HandlerNotInvokedOnRejection ==
    \A i \in ReqIds :
        RejectedByValidation(i) =>
            (ctx[i].calls = 0 /\ ctx[i].outcome = NoOutcome)

\* C16, its cases: a request is rejected by a validator, or it has passed
\* the validators and is rejected by the merged parse, the last step before
\* the handler.
RejectedBeforeHandler ==
    \E i \in ReqIds :
        /\ RejectedByValidation(i)
        /\ AnsweredBy(i) = "mergedParse"
        /\ ctx[i].response.body # [errors |-> <<>>]
        /\ ctx[i].calls = 0

\* C17: every body sent with status 200 satisfies the route's response
\* schema, and a handler result that does not satisfy it is never sent with
\* status 200.
OkBodySatisfiesResponseSchema ==
    \A i \in ReqIds :
        Answered(i) =>
            /\ (ctx[i].response.status = 200) =>
                    /\ ctx[i].response.type = "json"
                    /\ Accepts(ZObject(CurRoute(i).responseSchema.shape),
                               JObj(ctx[i].response.body))
                    /\ ReturnedValid(i)
            /\ (Invoked(i) /\ ctx[i].outcome.kind = "return" /\ ~ReturnedValid(i)) =>
                    ctx[i].response.status # 200

\* C17, its case: the handler's result satisfied the response schema and
\* carried a field the schema does not declare; the body sent with 200 is
\* the parsed result, without that field.
ParsedResultSent ==
    \E i \in ReqIds :
        /\ Invoked(i)
        /\ ReturnedValid(i)
        /\ ctx[i].response.status = 200
        /\ DOMAIN ctx[i].response.body = DOMAIN CurRoute(i).responseSchema.shape
        /\ DOMAIN ctx[i].outcome.value # DOMAIN ctx[i].response.body

\* What one validator answers to the request, NoResponse when it passes.
ValidatorResponse(target, schema, route, req) ==
    LET v == ValidatorValue(target, route, req)
        result == SafeParse(schema, v.value)
    IN  IF v.threw
        THEN errorHandler(HTTPException(400, "Malformed JSON in request body"))
        ELSE IF ~result.success
        THEN JsonResponse(SafeParseFailure(result.issues), 400)
        ELSE NoResponse

\* The response of the route to a request, given what the handler does when
\* it is reached (NoResponse when it is reached and nothing is known of it).
ResponseTo(route, req, outcome) ==
    LET param == ValidatorResponse("param", route.paramSchema, route, req)
        query == ValidatorResponse("query", route.querySchema, route, req)
        json == ValidatorResponse("json", route.jsonSchema, route, req)
        parsed == parseAsync(mergeSchemas(route.compoundRequest),
                             MergedInput(PathParams(route.path, req.path),
                                         req.query, ReadJson(req)))
    IN  IF param # NoResponse THEN param
        ELSE IF query # NoResponse THEN query
        ELSE IF json # NoResponse THEN json
        ELSE IF parsed.threw = "ZodError" THEN handleZodError(parsed.issues)
        ELSE IF outcome = NoOutcome THEN NoResponse
        ELSE ResponseFor(route, outcome)

\* The same request sent with the JSON body {}.
WithEmptyObjectBody(req) == [req EXCEPT !.body = JsonBody(JObj(EmptyObj))]

\* C18: a request whose body is absent or is not parseable JSON gets the
\* response that the same request gets with the body {}, and a 500 only
\* when the handler was invoked and failed.
AbsentBodyHandledAsEmptyObject ==
    \A i \in ReqIds :
        (Answered(i) /\ ctx[i].req.body.kind \in {"none", "malformed"}) =>
            /\ ctx[i].response =
                    ResponseTo(CurRoute(i), WithEmptyObjectBody(ctx[i].req),
                               ctx[i].outcome)
            /\ (ctx[i].response.status = 500) => Invoked(i)

\* C18, the failing request: a POST declared as JSON whose body is no JSON,
\* to a route whose json schema accepts {}, is answered 400 by the json
\* validator, while the same request with the body {} reaches the handler.
UnparseableBodyAnswered400 ==
    \E i \in ReqIds :
        /\ Answered(i)
        /\ ctx[i].req.method = "post"
        /\ ctx[i].req.body = MalformedBody
        /\ ctx[i].req.jsonContentType
        /\ AnsweredBy(i) = "validateJson"
        /\ ctx[i].response = TextResponse("Malformed JSON in request body", 400)
        /\ ResponseTo(CurRoute(i), WithEmptyObjectBody(ctx[i].req), NoOutcome)
                = NoResponse

\* C18, the case the claim names: a get route answers 200 to a request
\* without a body and without a Content-Type.
BodylessGetAnswered200 ==
    \E i \in ReqIds :
        /\ Answered(i)
        /\ ctx[i].req.method = "get"
        /\ ctx[i].req.body = NoBody
        /\ ~ctx[i].req.jsonContentType
        /\ ctx[i].response.status = 200

\* The source whose value the spread {...params, ...query, ...json} keeps for
\* a key: the body's if the body has the key, else the query's, else the
\* path's.
ValueSource(route, req, k) ==
    LET json == ReadJson(req)
    IN  IF json.isObj /\ k \in DOMAIN json.obj THEN "json"
        ELSE IF k \in DOMAIN req.query THEN "query"
        ELSE IF k \in DOMAIN PathParams(route.path, req.path) THEN "param"
        ELSE "none"

\* The source whose schema gives the merged schema its definition of a key.
DefinitionSource(route, k) ==
    LET request == route.compoundRequest
    IN  IF k \in DOMAIN ShapeOrEmpty(request.json) THEN "json"
        ELSE IF k \in DOMAIN ShapeOrEmpty(request.query) THEN "query"
        ELSE IF k \in DOMAIN ShapeOrEmpty(request.param) THEN "param"
        ELSE "none"

\* The request in slot i went through the parse against the merged schema.
MergedParseDone(i) ==
    Answered(i) /\ \E n \in 1..Len(ctx[i].log) : ctx[i].log[n] = "mergedParse"

\* C19: when the merged schema is applied, every key that the request
\* carries and the merged schema declares has its value and its field
\* definition from the same source, the JSON body before the query before
\* the path parameters.
ValueAndDefinitionFromSameSource ==
    \A i \in ReqIds :
        MergedParseDone(i) =>
            \A k \in Keys :
                (/\ ValueSource(CurRoute(i), ctx[i].req, k) # "none"
                 /\ DefinitionSource(CurRoute(i), k) # "none")
                    => ValueSource(CurRoute(i), ctx[i].req, k)
                            = DefinitionSource(CurRoute(i), k)

\* C19, the failing request: the route declares id as a string path
\* parameter and as an optional number of the body; a request whose body
\* has no id passes the three validators, and its path parameter is then
\* checked against the body's definition and rejected.
PathValueCheckedAsBodyField ==
    \E i \in ReqIds :
        /\ MergedParseDone(i)
        /\ CurRoute(i).compoundRequest.param = ZObject(IdStr)
        /\ CurRoute(i).compoundRequest.json = ZObject(IdNumOpt)
        /\ ValueSource(CurRoute(i), ctx[i].req, "id") = "param"
        /\ DefinitionSource(CurRoute(i), "id") = "json"
        /\ AnsweredBy(i) = "mergedParse"
        /\ ctx[i].response.status = 400

\* The keys declared by the parts of the request schema that are object
\* schemas.
ObjectPartFields(request) ==
    UNION {DOMAIN request[part].shape :
            part \in {p \in {"param", "query", "json"} : request[p].kind = "object"}}

\* The parts that are declared and are not object schemas.
OtherKindParts(request) ==
    {p \in {"param", "query", "json"} : request[p].kind \notin {"object", "undefined"}}

RefinedBodyDataReachesHandler ==
    \E i \in ReqIds :
        /\ Invoked(i)
        /\ "json" \in OtherKindParts(CurRoute(i).compoundRequest)
        /\ "name" \in DOMAIN ctx[i].input
        /\ ValueSource(CurRoute(i), ctx[i].req, "name") = "json"
        /\ ctx[i].input["name"] = ctx[i].req.body.value.obj["name"]

\* The keys declared by the route's param, query and json schemas.
DeclaredKeys(request) ==
    DOMAIN request.param.shape \cup DOMAIN request.query.shape
        \cup DOMAIN request.json.shape

\* The keys the client sent in the path, the query or the body.
SentKeys(route, req) == {k \in Keys : ValueSource(route, req, k) # "none"}

\* C21: the object passed to the handler contains only keys declared in the
\* route's param, query or json schemas; a key the client sends that no
\* schema declares is dropped and never reaches the handler.
OnlyDeclaredKeysReachHandler ==
    \A i \in ReqIds :
        Invoked(i) =>
            /\ DOMAIN ctx[i].input \subseteq DeclaredKeys(CurRoute(i).compoundRequest)
            /\ \A k \in SentKeys(CurRoute(i), ctx[i].req) :
                    (k \notin DeclaredKeys(CurRoute(i).compoundRequest))
                        => k \notin DOMAIN ctx[i].input

\* C21, its case: the handler was invoked for a request that carried an
\* undeclared key in its body and in its query, and received neither.
UndeclaredKeysDropped ==
    \E i \in ReqIds :
        /\ Invoked(i)
        /\ \E k \in Keys :
                /\ k \notin DeclaredKeys(CurRoute(i).compoundRequest)
                /\ ctx[i].req.jsonContentType
                /\ ctx[i].req.body.kind = "json"
                /\ ctx[i].req.body.value.isObj
                /\ k \in DOMAIN ctx[i].req.body.value.obj
                /\ k \in DOMAIN ctx[i].req.query
                /\ k \notin DOMAIN ctx[i].input
        /\ ctx[i].input # EmptyObj

\* The steps of a request to a registered route, in order; the last one is
\* the handler followed by the parse of its result.
StepOrder ==
    <<"describeRoute", "validateParam", "validateQuery", "validateJson",
      "readJson", "mergedParse", "handler">>

\* The merged parse of the request would reject it.
MergedParseRejects(route, req) ==
    parseAsync(mergeSchemas(route.compoundRequest),
               MergedInput(PathParams(route.path, req.path), req.query,
                           ReadJson(req))).threw = "ZodError"

\* C22: a request to a registered route passes through param validation,
\* query validation, json validation, the merged parse, the handler and the
\* response validation in this order; the first check that fails ends the
\* request, no later step runs, and the response is the report of that
\* check alone.
ChecksRunInFixedOrder ==
    \A i \in ReqIds :
        (ctx[i].pc # "idle" /\ ctx[i].chain # <<>>) =>
            /\ Len(ctx[i].log) <= Len(StepOrder)
            /\ ctx[i].log = SubSeq(StepOrder, 1, Len(ctx[i].log))
            /\ Answered(i) =>
                    /\ ctx[i].response =
                            ResponseTo(CurRoute(i), ctx[i].req, ctx[i].outcome)
                    /\ (ctx[i].response.status = 400) => ~Invoked(i)
                    /\ (AnsweredBy(i) # "handler") => ctx[i].response.status = 400

\* C22, its case: the json validator rejected a request that the merged
\* parse would reject too; the request ended there, with the validator's
\* report, and the merged parse did not run.
FirstFailingCheckAnswered ==
    \E i \in ReqIds :
        /\ Answered(i)
        /\ AnsweredBy(i) = "validateJson"
        /\ ctx[i].response.type = "json"
        /\ ctx[i].response.status = 400
        /\ MergedParseRejects(CurRoute(i), ctx[i].req)
        /\ \A n \in 1..Len(ctx[i].log) : ctx[i].log[n] # "mergedParse"

(***************************************************************************)
(* Properties of requests in flight together, checked under SpecConcurrent. *)
(***************************************************************************)
\* The request in slot i was answered by a route registered with get, post,
\* put or delete.
ApiAnswered(i) == Answered(i) /\ CurRoute(i).kind = "api"

\* The response that the request in slot i gets from the registered routes,
\* the constructor's options and its handler alone.
ResponseAlone(i) ==
    IF CurRoute(i).kind = "api"
    THEN ResponseTo(CurRoute(i), ctx[i].req, ctx[i].outcome)
    ELSE JsonResponse(generateSpecs(routes, info), 200)

\* C23: request handling keeps no state of its own: a step of the handling
\* of a request leaves the registered routes and the generated document
\* unchanged, and every response is the one that the request, the
\* registered routes and the handler determine, whatever was handled before.
RequestHandlingKeepsNoState ==
    [][/\ (ctx' # ctx) =>
            /\ routes' = routes
            /\ info' = info
            /\ specs.cached => specs' = specs
       /\ (specs' # specs) => specs'.doc = generateSpecs(routes', info')
       /\ \A i \in ReqIds :
            (ctx'[i] # ctx[i] /\ Answered(i)') =>
                ctx'[i].response = ResponseAlone(i)']_vars

\* C23, its case: the document has been served, and a request handled
\* afterwards by the post route is answered 200.
HandledAfterDocumentServed ==
    \E i \in ReqIds :
        /\ specs.cached
        /\ UserRoutes # {}
        /\ ApiAnswered(i)
        /\ ctx[i].response.status = 200
        /\ \A j \in ReqIds \ {i} : ctx[j].pc = "idle"

\* C24: when several requests are in flight and their steps interleave,
\* each request reads its own body, its handler receives the parse of its
\* own path, query and body, and it gets the response it gets when handled
\* alone.
ConcurrentRequestsIsolated ==
    \A i \in ReqIds :
        (ctx[i].pc # "idle" /\ ctx[i].chain # <<>> /\ CurRoute(i).kind = "api") =>
            LET route == CurRoute(i)
                req == ctx[i].req
                merged == MergedInput(PathParams(route.path, req.path), req.query,
                                      ReadJson(req))
            IN  /\ (ctx[i].pc \in {"parse", "handler"}) => ctx[i].json = ReadJson(req)
                /\ (ctx[i].pc = "handler" \/ Invoked(i)) =>
                        ctx[i].input =
                            parseAsync(mergeSchemas(route.compoundRequest), merged).data
                /\ Answered(i) =>
                        ctx[i].response = ResponseTo(route, req, ctx[i].outcome)

\* C24, its case: two requests with different bodies are in flight at once,
\* one already answered after its handler received the empty object, the
\* other waiting for its handler with the name it sent.
TwoRequestsInFlight ==
    \E i, j \in ReqIds :
        /\ i # j
        /\ Invoked(i)
        /\ ctx[i].input = EmptyObj
        /\ ctx[j].pc = "handler"
        /\ "name" \in DOMAIN ctx[j].input

(***************************************************************************)
(* Properties of middleware and of GET /openapi, checked under SpecGuarded. *)
(***************************************************************************)
\* The steps of a route registered with get, post, put or delete.
RouteSteps ==
    {"describeRoute", "validateParam", "validateQuery", "validateJson",
     "readJson", "mergedParse", "handler"}

\* The request in slot i has a route registered with get, post, put or
\* delete among its handlers.
HasServingRoute(i) ==
    \E p \in 1..Len(ctx[i].chain) : routes[ctx[i].chain[p].route].kind = "api"

\* The first such route: the one whose validation and handler serve it.
ServingRoute(i) ==
    LET p == CHOOSE p \in 1..Len(ctx[i].chain) :
                /\ routes[ctx[i].chain[p].route].kind = "api"
                /\ \A q \in 1..(p - 1) : routes[ctx[i].chain[q].route].kind # "api"
    IN  ctx[i].chain[p].route

\* The middleware steps taken before the first step of the route.
MiddlewareStepsBeforeRoute(log) ==
    Cardinality({n \in 1..Len(log) :
                    /\ log[n] = "middleware"
                    /\ \A m \in 1..n : log[m] \notin RouteSteps})

\* The middleware in guards has run before anything of the route, and a
\* middleware that answered has kept validation and handler from running.
GuardedBy(i, guards) ==
    /\ (\E n \in 1..Len(ctx[i].log) : ctx[i].log[n] \in RouteSteps) =>
            MiddlewareStepsBeforeRoute(ctx[i].log) = Cardinality(guards)
    /\ (ctx[i].pc = "done" /\ AnsweredBy(i) = "middleware") =>
            /\ ctx[i].calls = 0
            /\ \A n \in 1..Len(ctx[i].log) : ctx[i].log[n] \notin RouteSteps

\* C25 as stated: every middleware added with use before a route runs
\* before that route's validation and handler.  Fails for middleware added
\* with a path that the request does not match.
MiddlewareGuardsLaterRoutes ==
    \A i \in ReqIds :
        (ctx[i].pc # "idle" /\ HasServingRoute(i)) =>
            GuardedBy(i, {u \in Middlewares : u < ServingRoute(i)})

\* C25: middleware added with use guards every route registered after it
\* that its path matches, every route when it is added without a path: the
\* middleware runs before the route's validation and handler, and when it
\* answers without calling next neither validation nor the handler runs.
MatchingMiddlewareGuardsLaterRoutes ==
    \A i \in ReqIds :
        (ctx[i].pc # "idle" /\ HasServingRoute(i)) =>
            GuardedBy(i, {u \in Middlewares :
                            /\ u < ServingRoute(i)
                            /\ RouteMatches(routes[u], ctx[i].req)})

\* C25, its case: a request to a post route registered after the
\* middleware was answered 401 by the middleware; no validator and no
\* handler ran.
RejectedByMiddleware ==
    \E i \in ReqIds :
        /\ ctx[i].pc = "done"
        /\ ctx[i].req.method = "post"
        /\ HasServingRoute(i)
        /\ \E u \in Middlewares : u < ServingRoute(i)
        /\ ctx[i].log = <<"middleware">>
        /\ ctx[i].response.status = 401
        /\ ctx[i].calls = 0

\* C25, the other case: the middleware called next and the handler ran
\* after it.
PassedByMiddleware ==
    \E i \in ReqIds :
        /\ ctx[i].pc = "done"
        /\ Len(ctx[i].log) > 1
        /\ ctx[i].log[1] = "middleware"
        /\ AnsweredBy(i) = "handler"

\* The request in slot i is a GET /openapi.
DocRequested(i) ==
    /\ ctx[i].pc # "idle"
    /\ ctx[i].req.method = "get"
    /\ ctx[i].req.path = <<"openapi">>

\* C26: GET /openapi is answered with the generated document whatever
\* middleware has been added with use: no middleware runs for it, and the
\* request receives the document without the middleware's consent.
DocumentServedDespiteMiddleware ==
    \A i \in ReqIds :
        DocRequested(i) =>
            /\ \A n \in 1..Len(ctx[i].log) : ctx[i].log[n] # "middleware"
            /\ (ctx[i].pc = "done") =>
                    /\ ctx[i].log = <<"openAPISpecs">>
                    /\ ctx[i].response = JsonResponse(generateSpecs(routes, info), 200)

\* C26, its case: the document was served by an application whose
\* middleware, added without a path, matches GET /openapi.
DocumentServedPastMiddleware ==
    \E i \in ReqIds :
        /\ DocAnswered(i)
        /\ \E u \in Middlewares : routes[u].path = AnyPath
        /\ \E p \in 1..Len(ctx[i].chain) : ctx[i].chain[p].h = "middleware"
        /\ ctx[i].response.status = 200

\* The user's routes registered with get('/openapi', ...).
UserOpenapiRoutes ==
    {r \in UserRoutes : routes[r].method = "get" /\ routes[r].path = OpenapiPath}

\* C28: the documentation endpoint always wins GET /openapi: nothing of a
\* route the user registers with get('/openapi', ...) ever runs, and
\* GET /openapi returns the generated document.
DocumentationEndpointWins ==
    \A i \in ReqIds :
        DocRequested(i) =>
            /\ \A n \in 1..Len(ctx[i].log) : ctx[i].log[n] \notin RouteSteps
            /\ ctx[i].calls = 0
            /\ (ctx[i].pc = "done") =>
                    /\ AnsweredBy(i) = "openAPISpecs"
                    /\ ctx[i].response.status = 200
                    /\ "openapi" \in DOMAIN ctx[i].response.body
                    /\ ctx[i].response.body.paths
                            = generateSpecs(routes, info).paths

\* C28, its case: the document was served by an application whose user
\* registered get('/openapi', ...); the request matched that route too.
UserOpenapiRouteShadowed ==
    \E i \in ReqIds :
        /\ DocAnswered(i)
        /\ UserOpenapiRoutes # {}
        /\ \E p \in 1..Len(ctx[i].chain) : ctx[i].chain[p].route \in UserOpenapiRoutes
        /\ "openapi" \in DOMAIN ctx[i].response.body

(***************************************************************************)
(* The documented and the returned success status, checked under Spec.      *)
(***************************************************************************)
\* The key under which a route's documentation lists a response status.
StatusKey(status) ==
    CASE status = 200 -> "200"
      [] status = 201 -> "201"
      [] status = 204 -> "204"
      [] status = 400 -> "400"
      [] status = 404 -> "404"
      [] status = 500 -> "500"
      [] OTHER -> "other"

\* The success statuses a route's documentation lists.
DocumentedSuccess(route) ==
    (DOMAIN route.routeConfig.responses) \cap {"200", "201", "202", "204"}

\* C27: the success status a route documents equals the status it returns:
\* for every verb, post included, the route documents 200 as its success
\* response, and a request whose handler returned a value the response
\* schema accepts is answered with 200.
DocumentedSuccessStatusReturned ==
    /\ \A r \in UserRoutes : DocumentedSuccess(routes[r]) = {"200"}
    /\ \A i \in ReqIds :
            (Invoked(i) /\ ReturnedValid(i)) =>
                /\ ctx[i].response.status = 200
                /\ DocumentedSuccess(CurRoute(i)) = {StatusKey(ctx[i].response.status)}

\* C27, its case: a route registered with post answered a successful
\* request.
PostSucceeded ==
    \E i \in ReqIds :
        /\ Invoked(i)
        /\ ReturnedValid(i)
        /\ CurRoute(i).method = "post"
        /\ ctx[i].req.method = "post"
        /\ ctx[i].response.type = "json"

(***************************************************************************)
(* Properties of fetch, checked under SpecServed.                           *)
(***************************************************************************)
\* The response the underlying application gives the request in slot i.
ApplicationResponse(i) ==
    IF ctx[i].chain = <<>> THEN notFoundHandler ELSE ResponseAlone(i)

\* C29: fetch adds nothing to the underlying application's answer: every
\* request is handled by the handlers the registered routes match and gets
\* exactly the response they produce, and a call of fetch as a detached
\* function reference is answered as the call api.fetch(request) is.
FetchAddsNothing ==
    /\ \A i \in ReqIds :
            (ctx[i].pc # "idle") =>
                /\ ctx[i].chain = MatchedHandlers(routes, ctx[i].req, 1)
                /\ (ctx[i].pc = "done") => ctx[i].response = ApplicationResponse(i)
    /\ \A i, j \in ReqIds :
            (/\ ctx[i].pc = "done" /\ ctx[j].pc = "done"
             /\ ctx[i].receiver = Instance /\ ctx[j].receiver = Detached
             /\ ctx[i].req = ctx[j].req
             /\ ctx[i].outcome = ctx[j].outcome) =>
                ctx[i].response = ctx[j].response

\* C29, its case: the same request was made through api.fetch(request) and
\* through a detached reference, and the post route answered both with 200.
DetachedFetchAnswered ==
    \E i, j \in ReqIds :
        /\ ApiAnswered(i) /\ ApiAnswered(j)
        /\ ctx[i].receiver = Instance /\ ctx[j].receiver = Detached
        /\ ctx[i].req = ctx[j].req
        /\ ctx[i].outcome = ctx[j].outcome
        /\ ctx[j].response.status = 200

====
